---- MODULE Spec2Model ----
(***************************************************************************)
(* Local OAuth agent: the consent-bound signing protocol.                  *)
(*   src/src/main/server.js   POST /oauth handler, showOAuthApprovalDialog *)
(*   src/unnamed/part_000     config.js: loadConfig, saveConfig            *)
(*   src/src/main/crypto.js   loadOrCreateKeypair, signMessage, reset      *)
(***************************************************************************)
EXTENDS Integers, Sequences, FiniteSets, TLC

(* ------------------------------ bounds -------------------------------- *)
\* number of POST /oauth requests that arrive
MaxReq == 2
\* Date.now() takes the values 0..MaxClock
MaxClock == 1
\* Math.random() takes the values 0..MaxRand
MaxRand == 1

\* number of calls of loadOrCreateKeypair
MaxCalls == 3
\* number of keypairs the random source is asked for
MaxKeys == 3
\* number of calls of resetKeypair
MaxResets == 2
\* number of input dialogs shown
MaxDialogs == 3

Requests == 1..MaxReq
Calls == 1..MaxCalls
Dialogs == 1..MaxDialogs

(* --------------------------- JavaScript values ------------------------ *)
Undefined == "<undefined>"
Null == "<null>"
JsTrue == "<true>"
JsFalse == "<false>"

\* the values JavaScript treats as false in a condition
Falsy(v) == v \in {Undefined, Null, "", JsFalse}

\* a || b
JsOr(a, b) == IF Falsy(a) THEN b ELSE a

(* ------------------------------ inputs -------------------------------- *)
Nonces == {Undefined, "", "abc-123"}
ProfileNames == {"John Doe"}
ProfileEmails == {"john@example.com"}
\* the requester metadata of a request: absent, or given
NoApp == [appName |-> Undefined, appUrl |-> Undefined]
Apps == {NoApp, [appName |-> "Acme", appUrl |-> "https://acme.test"]}
\* the approved field of a decision message
ApprovedVals == {JsTrue, JsFalse, Undefined, "yes"}
\* the hidden main window, which is no approval window
MainWindow == 0

(* --------------------------- config.js -------------------------------- *)
NoFile == [kind |-> "absent", name |-> Undefined, email |-> Undefined]
BadFile == [kind |-> "unparsable", name |-> Undefined, email |-> Undefined]
JsonNullFile == [kind |-> "jsonnull", name |-> Undefined, email |-> Undefined]
JsonFile(n, e) == [kind |-> "json", name |-> n, email |-> e]

\* the configured profile
Configured == JsonFile("John Doe", "john@example.com")

\* the states the config file starts in: no usable file, one field missing
\* or empty, or the configured profile
InitConfigFiles ==
    {NoFile, BadFile, JsonNullFile, Configured}
        \cup {JsonFile(n, "john@example.com") : n \in {Undefined, ""}}
        \cup {JsonFile("John Doe", e) : e \in {Undefined, ""}}

\* loadConfig(): null, or {email, name} with every falsy field turned to null
\* (JSON.parse("null").email throws, and the catch returns null as well)
LoadConfig(file) ==
    IF file.kind = "absent" THEN [isNull |-> TRUE, email |-> Null, name |-> Null]
    ELSE IF file.kind \in {"unparsable", "jsonnull"}
        THEN [isNull |-> TRUE, email |-> Null, name |-> Null]
    ELSE [isNull |-> FALSE,
          email |-> JsOr(file.email, Null),
          name |-> JsOr(file.name, Null)]

\* saveConfig(email, name): the record written to the config file
SaveConfigData(email, name) == JsonFile(JsOr(name, Null), JsOr(email, Null))

\* savedConfig?.field
OptField(cfg, f) == IF cfg.isNull THEN Undefined ELSE cfg[f]

(* ------------------------ approval sessions --------------------------- *)
\* `oauth-approval-${Date.now()}-${Math.random()}`
ChannelId(now, rnd) == <<now, rnd>>
NoChannel == <<-1, -1>>

\* no decision message handled yet
NoData == "<none>"

\* the 'oauth-approval-data' the window is sent to display
PromptData(appName, appUrl, userName, userEmail) ==
    [appName |-> JsOr(appName, "Local Web App"),
     appUrl |-> JsOr(appUrl, "http://localhost:3000"),
     userName |-> JsOr(userName, ""),
     userEmail |-> JsOr(userEmail, "")]

NoPrompt == PromptData(Undefined, Undefined, "", "")

\* data: the approved field of the decision message the handler acted on
NoSession ==
    [window |-> "none", channel |-> NoChannel, completed |-> FALSE,
     timer |-> "none", promise |-> "none", outcome |-> FALSE,
     resolveCalls |-> 0, data |-> NoData, prompt |-> NoPrompt]

\* the state showOAuthApprovalDialog sets up before it returns its promise
NewSession(ch) ==
    [window |-> "open", channel |-> ch, completed |-> FALSE,
     timer |-> "armed", promise |-> "pending", outcome |-> FALSE,
     resolveCalls |-> 0, data |-> NoData, prompt |-> NoPrompt]

\* resolve(v) of the session's promise: only the first call settles it
Resolve(s, v) ==
    IF s.promise = "pending"
        THEN [s EXCEPT !.promise = "resolved", !.outcome = v,
                       !.resolveCalls = @ + 1]
        ELSE [s EXCEPT !.resolveCalls = @ + 1]

\* ipcMain.removeListener(channelId, handler): only this session's handler
RemoveListener(L, ch, r) == L \ {<<ch, r>>}

\* ipcMain.removeAllListeners(channelId): every handler on that channel
RemoveAllListeners(L, ch) == {l \in L : l[1] # ch}

\* mutant: the 'closed' handler does not resolve
ClosedHandlerNoResolve(s) == s

\* approvalWindow.on('closed', ...), as far as the session goes
ClosedHandlerSession(s) == IF ~s.completed THEN Resolve(s, FALSE) ELSE s

\* approvalWindow.on('closed', ...), as far as ipcMain's listeners go
ClosedHandlerListeners(L, s) ==
    IF ~s.completed THEN RemoveAllListeners(L, s.channel) ELSE L

\* the window goes away, by approvalWindow.destroy() or by the user closing
\* it: Electron emits 'closed' before the call returns, so the 'closed'
\* handler runs as part of it
Destroy(s) == ClosedHandlerSession([s EXCEPT !.window = "destroyed"])

\* mutant: any truthy value approves
StrictlyTrueLoose(v) == ~Falsy(v)

\* data.approved === true
StrictlyTrue(v) == v = JsTrue

\* mutant: the handler does not look at the sender
SenderIsOwnAny(w, r) == TRUE

\* event.sender === approvalWindow.webContents, in the handler of session r
\* for a message that window w sent
SenderIsOwn(w, r) == w = r

\* the IPC handler of session s, run for a message its own window sent:
\* completed = true; removeListener; destroy(); resolve(data.approved === true)
HandlerSession(s, approved) ==
    Resolve(Destroy([s EXCEPT !.completed = TRUE, !.data = approved]),
            StrictlyTrue(approved))

HandlerListeners(L, s, r) ==
    ClosedHandlerListeners(RemoveListener(L, s.channel, r),
                           [s EXCEPT !.completed = TRUE])

\* mutant: the callback runs unguarded
TimeoutAppliesUnguarded(s) == TRUE

\* mutant: `completed` in place of `!completed`
TimeoutAppliesInverted(s) == s.completed /\ s.window = "open"

\* the guard of the setTimeout callback
TimeoutApplies(s) == ~s.completed /\ s.window = "open"

\* mutant: the callback resolves nothing and leaves the window open
TimeoutSessionNoResolve(s) == [s EXCEPT !.timer = "fired"]

\* the setTimeout callback: removeListener; resolve(false); destroy()
TimeoutSession(s) ==
    IF TimeoutApplies(s)
        THEN Destroy(Resolve([s EXCEPT !.timer = "fired"], FALSE))
        ELSE [s EXCEPT !.timer = "fired"]

TimeoutListeners(L, s, r) ==
    IF TimeoutApplies(s)
        THEN ClosedHandlerListeners(RemoveListener(L, s.channel, r), s)
        ELSE L

(* ------------------------------ crypto.js ----------------------------- *)
\* byte strings: a 32-byte private scalar, the public key derived from it,
\* or bytes that are no key at all
Sk(k) == [tag |-> "sk", id |-> k]
Pk(k) == [tag |-> "pk", id |-> k]
Junk == [tag |-> "junk", id |-> 0]

\* ed25519.getPublicKeyAsync(privateKey)
GetPublicKey(priv) == Pk(priv.id)

\* Buffer.from(bytes).toString('base64'): the canonical encoding
Base64Encode(bytes) == [bytes |-> bytes, canon |-> TRUE]

\* Buffer.from(str, 'base64'): never throws on a string; a string that is not
\* the canonical encoding (no padding, embedded whitespace) decodes as well
Base64Decode(str) == str.bytes

\* one property of an object literal: <<key, value is undefined, value>>
StrField(key, v) == <<key, v = Undefined, v>>
ValField(key, v) == <<key, FALSE, v>>

\* JSON.stringify of an object given as its properties in order: a property
\* whose value is undefined is left out
JsonStringify(fields) == SelectSeq(fields, LAMBDA p : ~p[2])

\* signAsync throws unless the private key is a 32-byte scalar
CanSign(priv) == priv.tag = "sk"

\* signMessage(message, privateKey): a signature over
\* TextEncoder.encode(JSON.stringify(message))
SignMessage(message, priv) == [over |-> JsonStringify(message), by |-> priv.id]

NoSignature == [over |-> <<>>, by |-> 0]

\* a keypair as loadOrCreateKeypair returns it
Keypair(priv, pub, pubB64) ==
    [privateKey |-> priv, publicKey |-> pub, publicKeyBase64 |-> pubB64]

\* the keypair generated from private scalar k
GeneratedKeypair(k) ==
    Keypair(Sk(k), GetPublicKey(Sk(k)), Base64Encode(GetPublicKey(Sk(k))))

\* a field of the parsed keypair file: absent, not a string, or a string
MissingField == [t |-> "missing", str |-> [bytes |-> Junk, canon |-> FALSE]]
NonStringField == [t |-> "nonstring", str |-> [bytes |-> Junk, canon |-> FALSE]]
StringField(str) == [t |-> "string", str |-> str]

NoKeyFile ==
    [kind |-> "absent", privateKey |-> MissingField, publicKey |-> MissingField,
     mode |-> "none"]
KeyFile(kind, priv, pub, mode) ==
    [kind |-> kind, privateKey |-> priv, publicKey |-> pub, mode |-> mode]

\* fs.existsSync(keypairPath)
KeyFileExists(file) == file.kind # "absent"

\* mutant: the try block never throws
LoadThrowsNever(file) == FALSE

\* the try block of loadOrCreateKeypair throws: JSON.parse on text that is no
\* JSON, a property read on null, or Buffer.from on a value that is no string
LoadThrows(file) ==
    \/ file.kind \in {"unparsable", "jsonnull"}
    \/ file.privateKey.t # "string"
    \/ file.publicKey.t # "string"

\* the keypair the try block returns when it does not throw
LoadedKeypair(file) ==
    Keypair(Base64Decode(file.privateKey.str), Base64Decode(file.publicKey.str),
            file.publicKey.str)

\* mutant: the generated keypair is not persisted
WrittenKeyFileUnchanged(file, kp) == file

\* fs.writeFileSync(keypairPath, JSON.stringify(keypairData), {mode: 0o600}):
\* the mode is applied only when the call creates the file
WrittenKeyFile(file, kp) ==
    KeyFile("json", StringField(Base64Encode(kp.privateKey)),
            StringField(kp.publicKeyBase64),
            IF KeyFileExists(file) THEN file.mode ELSE "0600")

\* mutant: resetKeypair leaves the file in place
ResetKeyFileKept(file) == file

\* fs.unlinkSync(keypairPath)
ResetKeyFile(file) == NoKeyFile

\* mutant: resetKeypair always reports a deleted file
ResetReturnsTrue(file) == TRUE

\* what resetKeypair() returns: true from the branch that unlinks the file,
\* false past it
ResetReturns(file) == IF KeyFileExists(file) THEN TRUE ELSE FALSE

NoStr == [bytes |-> [tag |-> "none", id |-> 0], canon |-> FALSE]
NoKeypair == Keypair(Junk, Junk, NoStr)

(* ------------------------------- state -------------------------------- *)
VARIABLES
    clock,          \* Date.now()
    configFile,     \* ~/.local-oauth/config.json
    keypair,        \* the keypair startServer(keypair) closed over
    serverUp,       \* startServer has been called
    req,            \* each POST /oauth request: its locals and its response
    sess,           \* each request's approval session
    ipcListeners,   \* ipcMain's listeners: <<channel, session>> pairs
    firstOwn,       \* observer: the first decision a session's own window
                    \* delivered on the session's channel while it was pending
    keyFile,        \* ~/.local-oauth/keypair.json
    calls,          \* the calls of loadOrCreateKeypair
    nextKey,        \* the next private scalar the secure random source yields
    since,          \* observer: the keypair the last call returned, while no
                    \* reset has happened since
    lastReset,      \* observer: the last call of resetKeypair
    dialogs,        \* the input dialogs of the showInputDialog variant that
                    \* listens on the fixed 'input-result' channel
    inputListeners  \* ipcMain's once-listeners on 'input-result', in the
                    \* order they were registered, each named by its dialog

consentVars ==
    <<clock, configFile, keypair, serverUp, req, sess, ipcListeners, firstOwn>>
keyringVars == <<keyFile, calls, nextKey, since, lastReset>>
inputVars == <<dialogs, inputListeners>>
vars == <<clock, configFile, keypair, serverUp, req, sess, ipcListeners, firstOwn,
          keyFile, calls, nextKey, since, lastReset, dialogs, inputListeners>>

(* --------------------------- POST /oauth ------------------------------ *)
NoResponse == [status |-> 0, error |-> "", body |-> <<>>, signature |-> NoSignature]
ErrorResponse(code, msg) ==
    [status |-> code, error |-> msg, body |-> <<>>, signature |-> NoSignature]

NotConfiguredMsg ==
    "User identity not configured. Please set your name and email in the Local OAuth Agent."
DeniedMsg == "User denied the request"
InternalErrorMsg == "Internal server error: "

\* a request: its position in the handler, its locals and its response;
\*   cfg     observer: the config file as loadConfig found it
\*   active  observer: the keypair the keyring held when the request arrived
\*           (the one the last loadOrCreateKeypair returned, NoKeypair once
\*           resetKeypair has run since)
IdleRequest ==
    [pc |-> "idle", nonce |-> Undefined, app |-> NoApp,
     cfg |-> NoFile, active |-> NoKeypair,
     userName |-> "", userEmail |-> "", resp |-> NoResponse]

\* const userName = savedConfig?.name || ''
UserName(file) == JsOr(OptField(LoadConfig(file), "name"), "")
UserEmail(file) == JsOr(OptField(LoadConfig(file), "email"), "")

\* mutant: reading the config file leaves it truncated
ReadConfigFileTruncates(file) == BadFile

\* fs.existsSync and fs.readFileSync in loadConfig leave the file as it is
ReadConfigFile(file) == file

\* mutant: `&&` in place of `||`
NotConfiguredBoth(userName, userEmail) == Falsy(userName) /\ Falsy(userEmail)

\* if (!userName || !userEmail)
NotConfigured(userName, userEmail) == Falsy(userName) \/ Falsy(userEmail)

\* the handler up to its first await: the 400 answer, or the dialog is shown
PostOAuth(r, nonce, app) ==
    /\ serverUp
    /\ req[r].pc = "idle"
    /\ IF r = 1 THEN TRUE ELSE req[r - 1].pc # "idle"
    /\ configFile' = ReadConfigFile(configFile)
    /\ LET userName == UserName(configFile)
           userEmail == UserEmail(configFile)
           got == [req[r] EXCEPT !.nonce = nonce, !.app = app,
                                 !.cfg = configFile,
                                 !.active = since,
                                 !.userName = userName, !.userEmail = userEmail]
       IN IF NotConfigured(userName, userEmail)
          THEN /\ req' = [req EXCEPT ![r] =
                            [got EXCEPT !.pc = "responded",
                                        !.resp = ErrorResponse(400, NotConfiguredMsg)]]
               /\ UNCHANGED <<sess, ipcListeners>>
          ELSE \E rnd \in 0..MaxRand :
               LET ch == ChannelId(clock, rnd)
               IN /\ req' = [req EXCEPT ![r] = [got EXCEPT !.pc = "awaiting"]]
                  /\ sess' = [sess EXCEPT ![r] =
                                [NewSession(ch) EXCEPT !.prompt =
                                    PromptData(JsOr(app.appName, "Local Web App"),
                                               JsOr(app.appUrl, "http://localhost:3000"),
                                               userName, userEmail)]]
                  /\ ipcListeners' = ipcListeners \cup {<<ch, r>>}
    /\ UNCHANGED <<clock, keypair, serverUp, firstOwn, keyringVars, inputVars>>

\* mutant: the message is built with email before name
MessageReordered(q, timestamp) ==
    << StrField("email", q.userEmail), StrField("name", q.userName),
       ValField("timestamp", timestamp), StrField("nonce", q.nonce) >>

\* mutant: the message is built from the profile as it is at signing time
MessageReloaded(q, timestamp) ==
    << StrField("name", UserName(configFile)),
       StrField("email", UserEmail(configFile)),
       ValField("timestamp", timestamp), StrField("nonce", q.nonce) >>

\* the message to sign and the response, as properties in order
Message(q, timestamp) ==
    << StrField("name", q.userName), StrField("email", q.userEmail),
       ValField("timestamp", timestamp), StrField("nonce", q.nonce) >>

\* mutant: the response names the requesting application
ResponseBodyWithApp(q, timestamp, kp, signature) ==
    << StrField("name", q.userName), StrField("email", q.userEmail),
       ValField("publicKey", kp.publicKeyBase64), ValField("timestamp", timestamp),
       ValField("signature", signature), StrField("nonce", q.nonce),
       StrField("appName", q.app.appName) >>

ResponseBody(q, timestamp, kp, signature) ==
    << StrField("name", q.userName), StrField("email", q.userEmail),
       ValField("publicKey", kp.publicKeyBase64), ValField("timestamp", timestamp),
       ValField("signature", signature), StrField("nonce", q.nonce) >>

\* mutant: the `if (!approved)` answer is left out
AfterDialogUnchecked(q, approved, now, kp) ==
    LET signature == SignMessage(Message(q, now), kp.privateKey)
    IN [q EXCEPT !.pc = "responded",
                 !.resp = [status |-> 200, error |-> "",
                           body |-> JsonStringify(ResponseBody(q, now, kp, signature)),
                           signature |-> signature]]

\* the handler after `approved = await showOAuthApprovalDialog(...)`
AfterDialog(q, approved, now, kp) ==
    IF ~approved
        THEN [q EXCEPT !.pc = "responded", !.resp = ErrorResponse(403, DeniedMsg)]
    ELSE IF ~CanSign(kp.privateKey)
        THEN [q EXCEPT !.pc = "responded",
                       !.resp = ErrorResponse(500, InternalErrorMsg)]
    ELSE LET signature == SignMessage(Message(q, now), kp.privateKey)
         IN [q EXCEPT !.pc = "responded",
                      !.resp = [status |-> 200, error |-> "",
                                body |-> JsonStringify(
                                            ResponseBody(q, now, kp, signature)),
                                signature |-> signature]]

OAuthContinue(r) ==
    /\ req[r].pc = "awaiting"
    /\ sess[r].promise = "resolved"
    /\ req' = [req EXCEPT ![r] = AfterDialog(req[r], sess[r].outcome, clock, keypair)]
    /\ UNCHANGED <<clock, configFile, keypair, serverUp, sess, ipcListeners, firstOwn,
                   keyringVars, inputVars>>

(* ------------------- events of the approval sessions ------------------ *)
Windows == {r \in Requests : sess[r].window # "none"}
Channels == {sess[r].channel : r \in Windows}

\* the sessions whose handler is registered on ch and takes a message from w
\* for its own
Accepting(w, ch) ==
    {r \in Requests : <<ch, r>> \in ipcListeners /\ SenderIsOwn(w, r)}

\* a message {approved} arrives on channel ch from window w: ipcMain calls
\* every handler on ch, and only the handler of w's own session goes on
IpcMessage(w, ch, approved) ==
    /\ w \in Windows \cup {MainWindow}
    /\ ch \in Channels
    /\ sess' = [r \in Requests |->
                  IF r \in Accepting(w, ch)
                      THEN HandlerSession(sess[r], approved)
                      ELSE sess[r]]
    /\ ipcListeners' =
          {l \in ipcListeners :
              \A r \in Accepting(w, ch) :
                  l \in HandlerListeners(ipcListeners, sess[r], r)}
    /\ firstOwn' =
          IF /\ w \in Windows
             /\ ch = sess[w].channel
             /\ sess[w].promise = "pending"
             /\ sess[w].window = "open"
             /\ firstOwn[w] = "none"
          THEN [firstOwn EXCEPT ![w] =
                    IF StrictlyTrue(approved) THEN "approve" ELSE "deny"]
          ELSE firstOwn
    /\ UNCHANGED <<clock, configFile, keypair, serverUp, req, keyringVars, inputVars>>

\* the user closes the approval window
UserClose(r) ==
    /\ sess[r].window = "open"
    /\ sess' = [sess EXCEPT ![r] = Destroy(sess[r])]
    /\ ipcListeners' = ClosedHandlerListeners(ipcListeners, sess[r])
    /\ UNCHANGED <<clock, configFile, keypair, serverUp, req, firstOwn, keyringVars, inputVars>>

\* the 5-minute timer fires
TimerFire(r) ==
    /\ sess[r].timer = "armed"
    /\ sess' = [sess EXCEPT ![r] = TimeoutSession(sess[r])]
    /\ ipcListeners' = TimeoutListeners(ipcListeners, sess[r], r)
    /\ UNCHANGED <<clock, configFile, keypair, serverUp, req, firstOwn, keyringVars, inputVars>>

\* time passes
Tick ==
    /\ clock < MaxClock
    /\ clock' = clock + 1
    /\ UNCHANGED <<configFile, keypair, serverUp, req, sess, ipcListeners, firstOwn,
                   keyringVars, inputVars>>

\* the user saves name and email in the agent's window
SaveConfig(email, name) ==
    /\ configFile' = SaveConfigData(email, name)
    /\ UNCHANGED <<clock, keypair, serverUp, req, sess, ipcListeners, firstOwn,
                   keyringVars, inputVars>>

(* ------------------------------ keyring ------------------------------- *)
\* a call of loadOrCreateKeypair:
\*   seen        the keypair file as the call found it
\*   prev        the keypair the call before this one returned, when the two
\*               calls are sequential with no reset between them (NoKeypair
\*               otherwise)
\*   afterReset  the call is the first one begun after a reset, with no other
\*               call in progress
\*   before      the keypair that was persisted when that reset was called
IdleCall ==
    [pc |-> "idle", seen |-> NoKeyFile, prev |-> NoKeypair,
     afterReset |-> FALSE, before |-> NoKeypair, result |-> NoKeypair]

Generating == {d \in Calls : calls[d].pc = "generating"}

\* a call in progress that another call or a reset overlaps is not the second
\* of two sequential calls
Unchain(cs) ==
    [d \in Calls |-> IF cs[d].pc = "generating"
                        THEN [cs[d] EXCEPT !.prev = NoKeypair]
                        ELSE cs[d]]

\* the keypair a keypair file holds, as far as it can be loaded
PersistedKeypair(file) ==
    IF KeyFileExists(file) /\ ~LoadThrows(file)
        THEN LoadedKeypair(file)
        ELSE NoKeypair

NoReset == [n |-> 0, returned |-> FALSE, before |-> NoKeypair, quiet |-> FALSE]

\* loadOrCreateKeypair() up to its first await: it returns the stored keypair,
\* or goes on to generate one
LoadOrCreateBegin(c) ==
    /\ calls[c].pc = "idle"
    /\ IF c = 1 THEN TRUE ELSE calls[c - 1].pc # "idle"
    /\ LET begun == [calls[c] EXCEPT
                        !.seen = keyFile,
                        !.prev = IF Generating = {} THEN since ELSE NoKeypair,
                        !.afterReset = lastReset.quiet /\ Generating = {},
                        !.before = lastReset.before]
       IN IF KeyFileExists(keyFile) /\ ~LoadThrows(keyFile)
          THEN /\ calls' = [Unchain(calls) EXCEPT ![c] =
                              [begun EXCEPT !.pc = "done",
                                            !.result = LoadedKeypair(keyFile)]]
               /\ since' = LoadedKeypair(keyFile)
          ELSE /\ calls' = [Unchain(calls) EXCEPT ![c] =
                              [begun EXCEPT !.pc = "generating"]]
               /\ since' = since
    /\ lastReset' = [lastReset EXCEPT !.quiet = FALSE]
    /\ UNCHANGED <<keyFile, nextKey, consentVars, inputVars>>

\* the rest of loadOrCreateKeypair(): generate, write the file, return
LoadOrCreateFinish(c) ==
    /\ calls[c].pc = "generating"
    /\ nextKey <= MaxKeys
    /\ LET kp == GeneratedKeypair(nextKey)
       IN /\ keyFile' = WrittenKeyFile(keyFile, kp)
          /\ calls' = [calls EXCEPT ![c].pc = "done", ![c].result = kp]
          /\ since' = kp
    /\ nextKey' = nextKey + 1
    /\ lastReset' = [lastReset EXCEPT !.quiet = FALSE]
    /\ UNCHANGED <<consentVars, inputVars>>

\* resetKeypair(): unlink the file if it exists, and say whether it did
\* app.on('ready'): the keypair the first loadOrCreateKeypair returned is
\* handed to startServer, once
AppReady ==
    /\ ~serverUp
    /\ calls[1].pc = "done"
    /\ keypair' = calls[1].result
    /\ serverUp' = TRUE
    /\ UNCHANGED <<clock, configFile, req, sess, ipcListeners, firstOwn,
                   keyringVars, inputVars>>

ResetKeypair ==
    /\ lastReset.n < MaxResets
    /\ keyFile' = IF KeyFileExists(keyFile) THEN ResetKeyFile(keyFile) ELSE keyFile
    /\ calls' = Unchain(calls)
    /\ since' = NoKeypair
    /\ lastReset' = [n |-> lastReset.n + 1, returned |-> ResetReturns(keyFile),
                     before |-> PersistedKeypair(keyFile), quiet |-> TRUE]
    /\ UNCHANGED <<nextKey, consentVars, inputVars>>

(* ------------- showInputDialog on the fixed 'input-result' channel ------ *)
\* the value a dialog resolves to when it is dismissed
InputNull == "<null>"
InputValues == {"Alice", "Bob"}

NoDialog ==
    [window |-> "none", completed |-> FALSE, timer |-> "none",
     promise |-> "none", value |-> InputNull]

\* the state showInputDialog sets up before it returns its promise
NewDialog ==
    [window |-> "open", completed |-> FALSE, timer |-> "armed",
     promise |-> "pending", value |-> InputNull]

\* resolve(v) of the dialog's promise: only the first call settles it
InputResolve(s, v) ==
    IF s.promise = "pending"
        THEN [s EXCEPT !.promise = "resolved", !.value = v]
        ELSE s

\* inputWindow.on('closed', ...): if (!completed) resolve(null)
InputClosedHandler(s) == IF ~s.completed THEN InputResolve(s, InputNull) ELSE s

\* the window goes away and its 'closed' handler runs
InputDestroy(s) == InputClosedHandler([s EXCEPT !.window = "destroyed"])

\* the once-listener of a dialog: completed = true; inputWindow.destroy();
\* resolve(value). It looks neither at the sender nor at its window.
InputHandler(s, value) ==
    InputResolve(InputDestroy([s EXCEPT !.completed = TRUE]), value)

\* ipcMain.emit('input-result', event, value): every once-listener in L is
\* taken off and called in order. A listener whose window is already
\* destroyed calls destroy() on a destroyed object: where that throws
\* (throws = TRUE) the emit stops there and the listeners after it stay
\* registered. The result is <<dialogs, listeners left registered>>.
RECURSIVE Emit(_, _, _, _)
Emit(ds, L, value, throws) ==
    IF L = <<>> THEN <<ds, <<>>>>
    ELSE LET d == Head(L)
         IN IF ds[d].window = "destroyed" /\ throws
            THEN <<[ds EXCEPT ![d].completed = TRUE], Tail(L)>>
            ELSE Emit([ds EXCEPT ![d] = InputHandler(ds[d], value)],
                      Tail(L), value, throws)

\* showInputDialog(message, field): a window, a once-listener, a timer
ShowInputDialog(d) ==
    /\ dialogs[d].window = "none"
    /\ IF d = 1 THEN TRUE ELSE dialogs[d - 1].window # "none"
    /\ dialogs' = [dialogs EXCEPT ![d] = NewDialog]
    /\ inputListeners' = Append(inputListeners, d)
    /\ UNCHANGED <<consentVars, keyringVars>>

\* the form in window w is submitted: its preload sends value on
\* 'input-result'
InputResult(w, value) ==
    /\ dialogs[w].window = "open"
    /\ \E throws \in BOOLEAN :
          LET after == Emit(dialogs, inputListeners, value, throws)
          IN /\ dialogs' = after[1]
             /\ inputListeners' = after[2]
    /\ UNCHANGED <<consentVars, keyringVars>>

\* the user closes the window of dialog d
InputClose(d) ==
    /\ dialogs[d].window = "open"
    /\ dialogs' = [dialogs EXCEPT ![d] = InputDestroy(dialogs[d])]
    /\ UNCHANGED <<inputListeners, consentVars, keyringVars>>

\* the 5-minute timer of dialog d fires: resolve(null); destroy()
InputTimeout(d) ==
    /\ dialogs[d].timer = "armed"
    /\ dialogs' = [dialogs EXCEPT ![d] =
          IF ~dialogs[d].completed /\ dialogs[d].window = "open"
              THEN InputDestroy(InputResolve([dialogs[d] EXCEPT !.timer = "fired"],
                                             InputNull))
              ELSE [dialogs[d] EXCEPT !.timer = "fired"]]
    /\ UNCHANGED <<inputListeners, consentVars, keyringVars>>

(* --------------------------- specifications --------------------------- *)
\* the private scalar of a keypair persisted before startup: one the random
\* source does not yield again
StoredKey == MaxKeys + 1

\* the keypair file the agent may find at startup
InitKeyFiles ==
    {NoKeyFile}
        \cup {KeyFile(k, MissingField, MissingField, m) :
                k \in {"unparsable", "jsonnull"}, m \in {"0600", "0644"}}
        \cup {KeyFile("json", priv, pub, m) :
                priv \in {MissingField, NonStringField,
                          StringField(Base64Encode(Sk(StoredKey))),
                          StringField([bytes |-> Sk(StoredKey), canon |-> FALSE]),
                          StringField(Base64Encode(Junk))},
                pub \in {MissingField, NonStringField,
                         StringField(Base64Encode(Pk(StoredKey))),
                         StringField([bytes |-> Pk(StoredKey), canon |-> FALSE]),
                         StringField(Base64Encode(Junk))},
                m \in {"0600", "0644"}}

\* the private scalar of some other keypair
OtherKey == MaxKeys + 2

\* keypair files at startup whose two fields are base64 strings: the stored
\* keypair, a public key that is not the private key's, or a private key that
\* is no 32-byte scalar
AgentKeyFiles ==
    {NoKeyFile}
        \cup {KeyFile("json", StringField(Base64Encode(kp[1])),
                      StringField(Base64Encode(kp[2])), "0600") :
                kp \in {<<Sk(StoredKey), Pk(StoredKey)>>,
                        <<Sk(StoredKey), Pk(OtherKey)>>,
                        <<Junk, Pk(StoredKey)>>}}

InitRequests ==
    /\ clock = 0
    /\ req = [r \in Requests |-> IdleRequest]
    /\ sess = [r \in Requests |-> NoSession]
    /\ ipcListeners = {}
    /\ firstOwn = [r \in Requests |-> "none"]

InitConsent ==
    /\ clock = 0
    /\ keypair = GeneratedKeypair(StoredKey)
    /\ serverUp = TRUE
    /\ req = [r \in Requests |-> IdleRequest]
    /\ sess = [r \in Requests |-> NoSession]
    /\ ipcListeners = {}
    /\ firstOwn = [r \in Requests |-> "none"]

InitInput ==
    /\ dialogs = [d \in Dialogs |-> NoDialog]
    /\ inputListeners = <<>>

InitKeyring ==
    /\ calls = [c \in Calls |-> IdleCall]
    /\ nextKey = 1
    /\ since = NoKeypair
    /\ lastReset = NoReset

\* the running agent: the server is up with the keypair loaded at startup
\* and the profile is configured
Init ==
    /\ InitConsent
    /\ configFile = Configured
    /\ InitKeyring
    /\ InitInput
    /\ keyFile = WrittenKeyFile(NoKeyFile, GeneratedKeypair(StoredKey))

SessionEvents ==
    \/ \E w \in Requests \cup {MainWindow}, r \in Requests, a \in ApprovedVals :
          IpcMessage(w, sess[r].channel, a)
    \/ \E r \in Requests : UserClose(r)
    \/ \E r \in Requests : TimerFire(r)

\* requests that carry a nonce, against a configured profile
Next ==
    \/ \E r \in Requests, app \in Apps : PostOAuth(r, "abc-123", app)
    \/ \E r \in Requests : OAuthContinue(r)
    \/ SessionEvents
    \/ Tick

Spec == Init /\ [][Next]_vars

\* the same agent with its scheduling: a timer that is armed fires after its
\* 5 minutes, and a handler whose awaited promise has resolved goes on
LiveSpec ==
    /\ Init
    /\ [][Next]_vars
    /\ \A r \in Requests : WF_vars(TimerFire(r)) /\ WF_vars(OAuthContinue(r))

\* any request against any profile, which the user may save at any time
RequestInit ==
    /\ InitConsent
    /\ configFile \in InitConfigFiles
    /\ InitKeyring
    /\ InitInput
    /\ keyFile = WrittenKeyFile(NoKeyFile, GeneratedKeypair(StoredKey))

RequestNext ==
    \/ \E r \in Requests, nonce \in Nonces : PostOAuth(r, nonce, NoApp)
    \/ \E r \in Requests : OAuthContinue(r)
    \/ \E r \in Requests, a \in {JsTrue, JsFalse} : IpcMessage(r, sess[r].channel, a)
    \/ \E r \in Requests : UserClose(r)
    \/ \E r \in Requests : TimerFire(r)
    \/ Tick
    \/ \E e \in {""} \cup ProfileEmails, n \in {""} \cup ProfileNames : SaveConfig(e, n)

RequestSpec == RequestInit /\ [][RequestNext]_vars

\* the keyring on its own: any keypair file, then calls and resets
KeyringInit ==
    /\ InitConsent
    /\ configFile = NoFile
    /\ InitKeyring
    /\ InitInput
    /\ keyFile \in InitKeyFiles

KeyringNext ==
    \/ \E c \in Calls : LoadOrCreateBegin(c)
    \/ \E c \in Calls : LoadOrCreateFinish(c)
    \/ ResetKeypair

KeyringSpec == KeyringInit /\ [][KeyringNext]_vars

\* the agent from its start: the keypair is loaded or created, the server
\* starts with it, and requests, profile saves, keyring calls and resets
\* follow. Nothing runs between the first loadOrCreateKeypair and
\* startServer; the keyring's operations are serialized, one at a time, and
\* so are the requests
AgentInit ==
    /\ InitRequests
    /\ keypair = NoKeypair
    /\ serverUp = FALSE
    /\ configFile = Configured
    /\ InitKeyring
    /\ InitInput
    /\ keyFile \in AgentKeyFiles

AgentNext ==
    \/ \E c \in Calls :
          Generating = {} /\ (c = 1 \/ serverUp) /\ LoadOrCreateBegin(c)
    \/ \E c \in Calls : LoadOrCreateFinish(c)
    \/ Generating = {} /\ serverUp /\ ResetKeypair
    \/ AppReady
    \/ \E r \in Requests :
          /\ \A q \in 1..(r - 1) : req[q].pc = "responded"
          /\ PostOAuth(r, "abc-123", NoApp)
    \/ \E r \in Requests : OAuthContinue(r)
    \/ \E r \in Requests, a \in {JsTrue, JsFalse} : IpcMessage(r, sess[r].channel, a)
    \/ \E r \in Requests : TimerFire(r)
    \/ \E e \in ProfileEmails : SaveConfig(e, "")

AgentSpec == AgentInit /\ [][AgentNext]_vars

\* the input dialogs on their own
InputInit ==
    /\ InitConsent
    /\ configFile = NoFile
    /\ InitKeyring
    /\ InitInput
    /\ keyFile = NoKeyFile

InputNext ==
    \/ \E d \in Dialogs : ShowInputDialog(d)
    \/ \E w \in Dialogs, v \in InputValues : InputResult(w, v)
    \/ \E d \in Dialogs : InputClose(d)
    \/ \E d \in Dialogs : InputTimeout(d)

InputSpec == InputInit /\ [][InputNext]_vars

(* ------------------------------- claims ------------------------------- *)
Signed(r) == req[r].resp.signature # NoSignature

\* C1: a request is signed and answered with an assertion only if its own
\* approval session resolved to true; a request whose session resolved to
\* false is answered 'User denied the request' and nothing is signed for it.
C1_SignedOnlyIfApproved ==
    \A r \in Requests :
        /\ (Signed(r) \/ req[r].resp.status = 200) =>
              sess[r].promise = "resolved" /\ sess[r].outcome
        /\ (req[r].pc = "responded" /\ sess[r].promise = "resolved"
                /\ ~sess[r].outcome) =>
              req[r].resp = ErrorResponse(403, DeniedMsg)

\* one request approved and signed, another denied by its timer
C1_Witness ==
    \E r, q \in Requests :
        /\ req[r].resp.status = 200 /\ Signed(r)
        /\ req[q].resp.status = 403 /\ sess[q].timer = "fired" /\ ~sess[q].completed

\* C2: a request whose nonce is missing or empty is rejected with a
\* validation error before any prompt: no session is opened, nothing is signed.
C2_EmptyNonceRejected ==
    \A r \in Requests :
        (req[r].pc # "idle" /\ req[r].nonce \in {Undefined, ""}) =>
            /\ sess[r] = NoSession
            /\ ~Signed(r)
            /\ req[r].pc = "responded"
            /\ req[r].resp.status = 400

\* the profile as the claim words it: no file, no parsable profile in it, or
\* a name or an email that is missing or empty
ProfileMissing(file) ==
    \/ file.kind # "json"
    \/ file.name \in {Undefined, Null, ""}
    \/ file.email \in {Undefined, Null, ""}

\* C3: when the persisted profile is absent, unparsable or lacks a name or an
\* email, the request is answered 'User identity not configured', no session
\* is opened (no window, no listener, no timer) and nothing is signed.
C3_NotConfiguredNoSession ==
    \A r \in Requests :
        (req[r].pc # "idle" /\ ProfileMissing(req[r].cfg)) =>
            /\ req[r].pc = "responded"
            /\ req[r].resp = ErrorResponse(400, NotConfiguredMsg)
            /\ sess[r] = NoSession
            /\ \A l \in ipcListeners : l[2] # r

\* one request refused for its profile while another request's prompt is open
C3_Witness ==
    \E r, q \in Requests :
        /\ req[r].pc = "responded" /\ ProfileMissing(req[r].cfg)
        /\ req[r].resp.status = 400
        /\ sess[q].window = "open"

\* C4: with two sessions in flight, the events of one session never change
\* the outcome of the other: a session resolves to the decision its own window
\* delivered while it was pending, whatever the other session's window, timer
\* and messages do.
C4_SessionIsolation ==
    \A b \in Requests :
        (sess[b].promise = "resolved" /\ firstOwn[b] # "none") =>
            sess[b].outcome = (firstOwn[b] = "approve")

\* C5: once a session's own window has delivered a decision, no later event
\* (another message, the closed event, the timer) calls resolve or changes the
\* outcome, and a response once sent is never replaced.
C5_DecisionIsFinal ==
    [][\A r \in Requests :
          /\ sess[r].completed =>
                /\ sess'[r].promise = sess[r].promise
                /\ sess'[r].outcome = sess[r].outcome
                /\ sess'[r].resolveCalls = sess[r].resolveCalls
          /\ req[r].pc = "responded" => req'[r] = req[r]]_vars

\* a decided session whose timer has fired since and whose request was answered
C5_Witness ==
    \E r \in Requests :
        /\ sess[r].completed /\ sess[r].outcome
        /\ sess[r].timer = "fired"
        /\ req[r].resp.status = 200

\* C6: a session still pending when its timer fires resolves to false, and
\* after that nothing, a late decision message included, changes the session.
C6_TimeoutDenies ==
    [][\A r \in Requests :
          /\ (sess[r].timer = "armed" /\ sess'[r].timer = "fired"
                /\ sess[r].promise = "pending") =>
                sess'[r].promise = "resolved" /\ ~sess'[r].outcome
          /\ (sess[r].timer = "fired" /\ sess[r].promise = "resolved"
                /\ ~sess[r].completed) =>
                sess'[r] = sess[r]]_vars

\* a session that its timer resolved (the callback and the closed handler
\* both called resolve) with no decision delivered
C6_Witness ==
    \E r \in Requests :
        /\ sess[r].timer = "fired" /\ ~sess[r].completed
        /\ sess[r].resolveCalls = 2
        /\ sess[r].promise = "resolved" /\ ~sess[r].outcome
        /\ firstOwn[r] = "none"

\* C7: after a decision has been delivered for a session, no timer of that
\* session is still armed.
C7_TimerCancelled ==
    \A r \in Requests : sess[r].completed => sess[r].timer # "armed"

\* C8: when the user closes the window with no decision sent, the session
\* resolves to false in that step and its IPC listener is removed.
C8_CloseDenies ==
    [][\A r \in Requests :
          (sess[r].window = "open" /\ sess'[r].window = "destroyed"
              /\ ~sess'[r].completed /\ sess'[r].timer = sess[r].timer) =>
              /\ sess'[r].promise = "resolved"
              /\ ~sess'[r].outcome
              /\ <<sess[r].channel, r>> \notin ipcListeners']_vars

\* a window closed by the user while the timer is still armed
C8_Witness ==
    \E r \in Requests :
        /\ sess[r].window = "destroyed" /\ ~sess[r].completed
        /\ sess[r].timer = "armed"
        /\ sess[r].promise = "resolved" /\ ~sess[r].outcome

\* C9: no two sessions ever share a channel identifier.
C9_UniqueChannels ==
    \A a, b \in Requests :
        (a # b /\ sess[a].window # "none" /\ sess[b].window # "none") =>
            sess[a].channel # sess[b].channel

\* C10: of two sequential calls of loadOrCreateKeypair with no reset between
\* them, the second returns the public key the first returned.
C10_LoadIdempotent ==
    \A c \in Calls :
        (calls[c].pc = "done" /\ calls[c].prev # NoKeypair) =>
            /\ calls[c].result.publicKey = calls[c].prev.publicKey
            /\ calls[c].result.publicKeyBase64 = calls[c].prev.publicKeyBase64

\* the first call generated a keypair and the second one, run after it, is done
C10_Witness ==
    /\ calls[2].pc = "done"
    /\ calls[2].prev # NoKeypair
    /\ nextKey = 2

\* C11: the first loadOrCreateKeypair begun after a resetKeypair (no other
\* call in progress) does not return at the load: it generates a keypair,
\* leaves it persisted, and its public key differs from the one that was
\* persisted when resetKeypair was called.
C11_ResetThenNew ==
    [][\A c \in Calls :
          (calls[c].pc # "done" /\ calls'[c].pc = "done" /\ calls'[c].afterReset) =>
              /\ calls[c].pc = "generating"
              /\ calls'[c].result = GeneratedKeypair(nextKey)
              /\ nextKey' = nextKey + 1
              /\ PersistedKeypair(keyFile') = calls'[c].result
              /\ calls'[c].result.publicKey # calls'[c].before.publicKey
              /\ calls'[c].result.publicKeyBase64 # calls'[c].before.publicKeyBase64]_vars

\* a reset deleted a loadable keypair and the next call has returned
C11_Witness ==
    \E c \in Calls :
        /\ calls[c].pc = "done" /\ calls[c].afterReset
        /\ calls[c].before.publicKey.tag = "pk"
        /\ lastReset.returned

\* C12: resetKeypair returns true exactly when the keypair file existed; when
\* it returns no keypair file exists; it asks for no key and changes no call's
\* result; called again right away it returns false.
C12_ResetReturn ==
    [][lastReset'.n > lastReset.n =>
          /\ lastReset'.returned = KeyFileExists(keyFile)
          /\ ~KeyFileExists(keyFile')
          /\ nextKey' = nextKey
          /\ \A c \in Calls : /\ calls'[c].pc = calls[c].pc
                               /\ calls'[c].result = calls[c].result
          /\ lastReset.quiet => ~lastReset'.returned]_vars

\* a call returned, a reset deleted its file, and the reset right after that
\* returned false
C12_Witness ==
    /\ calls[1].pc = "done" /\ calls[2].pc = "idle"
    /\ lastReset.n = MaxResets /\ lastReset.quiet
    /\ ~lastReset.returned

\* a keypair file that exists but is unreadable or malformed: no JSON object,
\* a key field missing or no string, or a key field that does not decode to a
\* 32-byte key
Malformed(file) ==
    /\ KeyFileExists(file)
    /\ \/ file.kind # "json"
       \/ file.privateKey.t # "string"
       \/ file.publicKey.t # "string"
       \/ Base64Decode(file.privateKey.str).tag # "sk"
       \/ Base64Decode(file.publicKey.str).tag # "pk"

\* C13: a call that finds a malformed keypair file returns a freshly
\* generated keypair and no key material of that file.
C13_MalformedRegenerates ==
    \A c \in Calls :
        (calls[c].pc = "done" /\ Malformed(calls[c].seen)) =>
            /\ \E k \in 1..MaxKeys : calls[c].result = GeneratedKeypair(k)
            /\ calls[c].result.privateKey # Base64Decode(calls[c].seen.privateKey.str)
            /\ calls[c].result.publicKey # Base64Decode(calls[c].seen.publicKey.str)

\* C14: a successful response carries the request's nonce and the name and
\* email of the profile read for the request, and its signature is over the
\* serialized message {name, email, timestamp, nonce}, in that order, with
\* the values of the response, one timestamp serving both.
C14_SignedPayload ==
    \A r \in Requests :
        req[r].resp.status = 200 =>
            \E t \in 0..MaxClock :
                LET q == req[r]
                    sig == q.resp.signature
                IN /\ sig.over =
                        JsonStringify(<< StrField("name", q.cfg.name),
                                         StrField("email", q.cfg.email),
                                         ValField("timestamp", t),
                                         StrField("nonce", q.nonce) >>)
                   /\ q.resp.body =
                        JsonStringify(<< StrField("name", q.cfg.name),
                                         StrField("email", q.cfg.email),
                                         ValField("publicKey", keypair.publicKeyBase64),
                                         ValField("timestamp", t),
                                         ValField("signature", sig),
                                         StrField("nonce", q.nonce) >>)

\* an assertion for a request with a nonce, signed after the clock advanced
C14_Witness ==
    \E r \in Requests :
        /\ req[r].resp.status = 200
        /\ req[r].nonce = "abc-123"
        /\ req[r].resp.signature.over[3] = ValField("timestamp", MaxClock)
        /\ req[r].resp.signature.over[4] = StrField("nonce", "abc-123")

\* Ed25519 verification of a signature against a public key
Verifies(signature, pub) == pub.tag = "pk" /\ pub.id = signature.by

\* the publicKey property of a successful response
ReturnedPublicKey(r) == req[r].resp.body[3][3]

\* C15: in a successful response the returned publicKey is the public key of
\* the private key that signed: the signature verifies against it.
C15_SignatureVerifies ==
    \A r \in Requests :
        req[r].resp.status = 200 =>
            Verifies(req[r].resp.signature, Base64Decode(ReturnedPublicKey(r)))

\* C17: a request that arrives while the keyring holds a keypair is signed
\* with that keypair and returns its public key.
C17_SignsWithActiveKey ==
    \A r \in Requests :
        (req[r].resp.status = 200 /\ req[r].active # NoKeypair) =>
            /\ req[r].resp.signature.by = req[r].active.privateKey.id
            /\ ReturnedPublicKey(r) = req[r].active.publicKeyBase64

\* C18: no step of a POST /oauth request or its approval session changes the
\* persisted profile, the persisted keypair or the keypair in memory.
C18_RequestFrame ==
    [][(req' # req \/ sess' # sess \/ ipcListeners' # ipcListeners) =>
          /\ configFile' = configFile
          /\ keyFile' = keyFile
          /\ keypair' = keypair]_vars

\* one request ended in an internal error and another was refused for its
\* profile, which the user changed in between
C18_Witness ==
    \E r, q \in Requests :
        /\ req[r].resp.status = 500
        /\ req[q].resp.status = 400
        /\ req[r].cfg # req[q].cfg

\* how a request came to be refused: no profile, a deny decision from its
\* window, or its timer (whose callback resolves and then destroys the window,
\* so that the closed handler calls resolve a second time)
Cause(r) ==
    IF req[r].pc # "responded" \/ req[r].resp.status = 200 THEN "none"
    ELSE IF sess[r] = NoSession THEN "identity_not_configured"
    ELSE IF sess[r].completed THEN "user_denied"
    ELSE IF sess[r].resolveCalls = 2 THEN "timed_out"
    ELSE "dismissed"

\* what the caller can tell a refusal by
Reason(r) == <<req[r].resp.status, req[r].resp.error>>

\* C16: refusals with different causes among timeout, explicit denial and
\* missing profile carry different reasons.
C16_DistinctReasons ==
    \A r, q \in Requests :
        ( /\ Cause(r) \in {"identity_not_configured", "user_denied", "timed_out"}
          /\ Cause(q) \in {"identity_not_configured", "user_denied", "timed_out"}
          /\ Cause(r) # Cause(q) ) =>
            Reason(r) # Reason(q)

\* C19: every session that is opened is resolved and its window destroyed,
\* and its request is then answered; the answer is never replaced, and no
\* window is open once its request has been answered.
C19_SessionsEnd ==
    /\ \A r \in Requests :
          (sess[r].window = "open") ~>
              (sess[r].promise = "resolved" /\ sess[r].window = "destroyed"
                  /\ req[r].pc = "responded")
    /\ [][\A r \in Requests : req[r].pc = "responded" => req'[r] = req[r]]_vars
    /\ [](\A r \in Requests : req[r].pc = "responded" => sess[r].window # "open")

\* a session that only its timer ended, with its request answered
C19_Witness ==
    \E r \in Requests :
        /\ req[r].pc = "responded" /\ req[r].resp.status = 403
        /\ sess[r].timer = "fired" /\ sess[r].resolveCalls = 2
        /\ firstOwn[r] = "none"

\* C20: whenever a session's promise has resolved, its window is destroyed
\* and no IPC listener is registered on its channel.
C20_ResolvedTornDown ==
    \A r \in Requests :
        sess[r].promise = "resolved" =>
            /\ sess[r].window = "destroyed"
            /\ \A l \in ipcListeners : l[1] # sess[r].channel

\* C21: a message on a pending session's channel from a sender other than
\* the session's own window leaves the session as it was: pending, its window
\* open, its listener registered.
C21_ForeignSenderIgnored ==
    [][\A r \in Requests :
          \A w \in (Requests \cup {MainWindow}) \ {r} :
              \A a \in ApprovedVals :
                  ( /\ sess[r].promise = "pending"
                    /\ IpcMessage(w, sess[r].channel, a) ) =>
                      /\ sess'[r] = sess[r]
                      /\ (<<sess[r].channel, r>> \in ipcListeners) =>
                            (<<sess[r].channel, r>> \in ipcListeners')]_vars

\* another window's decision went out on the channel a pending session
\* listens on, and that session is still pending with its listener in place
C21_Witness ==
    \E r, w \in Requests :
        /\ r # w
        /\ sess[w].channel = sess[r].channel
        /\ sess[w].completed
        /\ sess[r].promise = "pending" /\ sess[r].window = "open"
        /\ <<sess[r].channel, r>> \in ipcListeners

\* C22: a session whose handler acted on a decision message is resolved and
\* torn down, to approved exactly when the message's approved field is the
\* boolean true.
C22_StrictApproval ==
    \A r \in Requests :
        /\ sess[r].data # NoData =>
              /\ sess[r].promise = "resolved"
              /\ sess[r].outcome = (sess[r].data = JsTrue)
              /\ sess[r].window = "destroyed"
              /\ <<sess[r].channel, r>> \notin ipcListeners
        /\ (sess[r].promise = "resolved" /\ sess[r].outcome) =>
              sess[r].data = JsTrue

\* a decision message with a truthy approved value that is no boolean was
\* taken as a denial and answered so
C22_Witness ==
    \E r \in Requests :
        /\ sess[r].data = "yes"
        /\ ~sess[r].outcome
        /\ req[r].resp.status = 403

\* C23: two calls that overlap while no keypair file exists return the same
\* keypair, and once both have returned that keypair is the persisted one.
C23_OverlapSameKeypair ==
    \A c, d \in Calls :
        ( /\ c # d
          /\ calls[c].pc = "done" /\ calls[d].pc = "done"
          /\ ~KeyFileExists(calls[c].seen) /\ ~KeyFileExists(calls[d].seen)
          /\ lastReset.n = 0 /\ Generating = {} ) =>
            /\ calls[c].result = calls[d].result
            /\ PersistedKeypair(keyFile) = calls[c].result

\* C24: the name and email signed and returned for an approved request are
\* the ones its approval prompt displayed, whatever saveConfig did meanwhile.
C24_SignsWhatWasShown ==
    \A r \in Requests :
        req[r].resp.status = 200 =>
            /\ req[r].resp.body[1] = StrField("name", sess[r].prompt.userName)
            /\ req[r].resp.body[2] = StrField("email", sess[r].prompt.userEmail)
            /\ req[r].resp.signature.over[1] =
                  StrField("name", sess[r].prompt.userName)
            /\ req[r].resp.signature.over[2] =
                  StrField("email", sess[r].prompt.userEmail)

\* an assertion was issued although the persisted profile no longer holds
\* the name the prompt displayed
C24_Witness ==
    \E r \in Requests :
        /\ req[r].resp.status = 200
        /\ configFile # req[r].cfg
        /\ UserName(configFile) # sess[r].prompt.userName

\* the keys and the string values of a serialized object
Keys(obj) == {obj[i][1] : i \in 1..Len(obj)}

\* C25: two answered requests that differ only in appName and appUrl (same
\* profile, nonce, decision and signing time) have the same signed message
\* and the same response, and neither holds an appName or appUrl property.
C25_AppDisplayOnly ==
    \A r, q \in Requests :
        ( /\ req[r].pc = "responded" /\ req[q].pc = "responded"
          /\ req[r].cfg = req[q].cfg /\ req[r].nonce = req[q].nonce
          /\ sess[r].outcome = sess[q].outcome
          /\ (sess[r].outcome =>
                req[r].resp.signature.over[3] = req[q].resp.signature.over[3]) ) =>
            /\ req[r].resp = req[q].resp
            /\ Keys(req[r].resp.body) \cap {"appName", "appUrl"} = {}
            /\ Keys(req[r].resp.signature.over) \cap {"appName", "appUrl"} = {}

\* two assertions signed at the same time for requests of which only one
\* named its application
C25_Witness ==
    \E r, q \in Requests :
        /\ req[r].resp.status = 200 /\ req[q].resp.status = 200
        /\ req[r].app # req[q].app
        /\ sess[r].prompt.appName # sess[q].prompt.appName
        /\ req[r].resp.signature.over[3] = req[q].resp.signature.over[3]

\* C26: a call that found an unparsable keypair file returns a generated
\* keypair and leaves its record in the file, so that a load of the file
\* yields that keypair's public key.
C26_UnparsableReplaced ==
    [][\A c \in Calls :
          ( /\ calls[c].pc # "done" /\ calls'[c].pc = "done"
            /\ calls'[c].seen.kind = "unparsable" ) =>
              /\ calls'[c].result = GeneratedKeypair(nextKey)
              /\ KeyFileExists(keyFile') /\ ~LoadThrows(keyFile')
              /\ LoadedKeypair(keyFile').publicKey = calls'[c].result.publicKey
              /\ LoadedKeypair(keyFile').publicKeyBase64 =
                    calls'[c].result.publicKeyBase64]_vars

\* a call replaced an unparsable file and the call after it loaded the
\* replacement
C26_Witness ==
    \E c, d \in Calls :
        /\ calls[c].pc = "done" /\ calls[c].seen.kind = "unparsable"
        /\ calls[d].pc = "done" /\ calls[d].prev = calls[c].result
        /\ calls[d].result = calls[c].result
        /\ nextKey = 2

\* C27: once a call has generated a keypair, the keypair file has mode 0600,
\* whether the call created it or wrote over an existing file.
C27_OwnerOnlyFile ==
    [][\A c \in Calls :
          (calls[c].pc = "generating" /\ calls'[c].pc = "done") =>
              keyFile'.mode = "0600"]_vars

\* C29: in every terminal state of a session exactly one call of resolve has
\* been made and the completed flag is set.
C29_OneResolveCall ==
    \A r \in Requests :
        sess[r].promise = "resolved" =>
            /\ sess[r].resolveCalls = 1
            /\ sess[r].completed

====
